---------------------------- MODULE Spec2Model ----------------------------
(***************************************************************************)
(* A model of docs/pangeo_forge_recipes/tutorials/xarray_zarr/             *)
(* opendap_subset_recipe.ipynb: the URL formatter `format_function`, the   *)
(* coordinate-promotion step `SetProjectionAsCoord`, and the pipeline      *)
(*   Create(pattern.items()) | OpenWithXarray | SetProjectionAsCoord       *)
(*                           | StoreToZarr                                 *)
(* that the notebook assembles and runs.                                   *)
(*                                                                         *)
(* Python strings are TLA+ strings.  A Python call is an operator whose    *)
(* value is an outcome: Return(v) when the call returns v, Raise(e) when   *)
(* it raises e.  Code without try/except hands a Raise on unchanged.       *)
(***************************************************************************)
EXTENDS Naturals, Sequences, FiniteSets, TLC

VARIABLES
    label,        \* the time label handed to format_function
    fmt_calls,    \* outcomes of the successive calls format_function(label)
    frag,         \* the indexed fragment handed to the promotion step
    applied,      \* outcomes of the step applied to frag, then to its own output
    remote,       \* what the OPeNDAP server answers for air.197901.nc
    disk_ok,      \* whether writes below target_root succeed
    target_root,  \* td.name, the temporary directory of the run
    stage,        \* position of the running pipeline in `transforms`
    pcoll,        \* the PCollection flowing between two transforms
    fs,           \* the stores on the filesystem
    log,          \* one event per transform that ran
    run,          \* <<>> while the pipeline cell runs, then <<its outcome>>
    ds_target     \* <<>> until the read-back cell ran, then <<its outcome>>

vars == <<label, fmt_calls, frag, applied, remote, disk_ok, target_root,
          stage, pcoll, fs, log, run, ds_target>>

fmt_vars  == <<label, fmt_calls>>
step_vars == <<frag, applied>>
pipe_vars == <<remote, disk_ok, target_root, stage, pcoll, fs, log, run, ds_target>>

---------------------------------------------------------------------------
(* Bounds of the model.                                                    *)

MaxLabelLen == 3   \* longest generated time label
MaxCalls    == 2   \* calls of format_function on one label
MaxApply    == 2   \* successive applications of the promotion step
MaxIndex    == 1   \* largest position of a fragment along "time"
MaxValue    == 1   \* field values and attributes range over 0..MaxValue
MaxTime     == 2   \* largest length of the "time" dimension of a file

---------------------------------------------------------------------------
(* Python outcomes.                                                        *)

Return(v) == [kind |-> "return", value |-> v]
Raise(e)  == [kind |-> "raise", exc |-> e]
Returned(o) == o.kind = "return"
Raised(o)   == o.kind = "raise"

---------------------------------------------------------------------------
(* Time labels and the URL formatter.                                      *)

Chars == {"7", ".", "n", "c"}

RECURSIVE Strs(_)
Strs(n) ==
    IF n = 0 THEN {""}
    ELSE LET S == Strs(n - 1) IN S \cup {s \o c : s \in S, c \in Chars}

\* url = "https://psl.noaa.gov/thredds/dodsC/Datasets/NARR/pressure/air.197901.nc"
url == "https://psl.noaa.gov/thredds/dodsC/Datasets/NARR/pressure/air.197901.nc"

\* time_dim = ConcatDim("time", ["197901"])
time_dim == [name |-> "time", keys |-> <<"197901">>]

Labels == Strs(MaxLabelLen) \cup {time_dim.keys[i] : i \in 1..Len(time_dim.keys)}

\* A formatter that validates its label: only six-character labels pass.
format_function_validating(time) ==
    IF Len(time) = 6
    THEN Return("https://psl.noaa.gov/thredds/dodsC/Datasets/NARR/pressure/air."
                \o time \o ".nc")
    ELSE Raise("ValueError")

\* A formatter whose template lost the "." between "air" and the label.
format_function_nodot(time) ==
    Return("https://psl.noaa.gov/thredds/dodsC/Datasets/NARR/pressure/air"
           \o time \o ".nc")

\* A formatter that strips a trailing "." from the label.
format_function_lossy(time) ==
    Return("https://psl.noaa.gov/thredds/dodsC/Datasets/NARR/pressure/air."
           \o (IF Len(time) > 0 /\ SubSeq(time, Len(time), Len(time)) = "."
               THEN SubSeq(time, 1, Len(time) - 1) ELSE time)
           \o ".nc")

\* def format_function(time):
\*     return f"https://psl.noaa.gov/thredds/dodsC/Datasets/NARR/pressure/air.{time}.nc"
\* An f-string over a str substitutes the str itself and cannot raise.
format_function(time) ==
    Return("https://psl.noaa.gov/thredds/dodsC/Datasets/NARR/pressure/air."
           \o time \o ".nc")


---------------------------------------------------------------------------
(* Structured datasets and indexed fragments.                              *)

ProjectionName == "Lambert_Conformal"

FieldNames == {"air", ProjectionName, "lat"}
Values     == 0..MaxValue
Indexes    == 0..MaxIndex

\* A dataset: its fields with their values, the names classified as
\* coordinates (every other field is a data field), its attributes and the
\* length of its "time" dimension.
Datasets ==
    UNION {[variables   : [S -> Values],
            coord_names : SUBSET S,
            attrs       : Values,
            sizes       : [time : 1..MaxTime]] : S \in SUBSET FieldNames}

Fragments == Indexes \X Datasets

HasField(ds, n) == n \in DOMAIN ds.variables
IsCoord(ds, n)  == n \in ds.coord_names
IsData(ds, n)   == HasField(ds, n) /\ ~IsCoord(ds, n)

\* ds.set_coords(names) with the coordinate names replaced, not extended.
set_coords_replacing(ds, names) ==
    IF names \subseteq DOMAIN ds.variables
    THEN Return([ds EXCEPT !.coord_names = names])
    ELSE Raise("ValueError")

\* ds.set_coords(names), as xarray defines it: every name must be a field of
\* ds, else ValueError; the result is a copy of ds whose coordinate names
\* are extended by names.  ds itself is left as it was.
set_coords(ds, names) ==
    IF names \subseteq DOMAIN ds.variables
    THEN Return([ds EXCEPT !.coord_names = @ \cup names])
    ELSE Raise("ValueError")

\* A step that hands the fragment on untouched when the field is absent.
set_projection_as_coord_lenient(item) ==
    LET index == item[1]
        ds    == item[2]
        r     == set_coords(ds, {ProjectionName})
    IN  IF Raised(r) THEN Return(<<index, ds>>) ELSE Return(<<index, r.value>>)

\* A step that flips the field's classification instead of setting it.
set_projection_as_coord_toggling(item) ==
    LET index == item[1]
        ds    == item[2]
    IN  IF ~HasField(ds, ProjectionName) THEN Raise("ValueError")
        ELSE IF IsCoord(ds, ProjectionName)
        THEN Return(<<index, [ds EXCEPT !.coord_names = @ \ {ProjectionName}]>>)
        ELSE Return(<<index, [ds EXCEPT !.coord_names = @ \cup {ProjectionName}]>>)

\* A step that renumbers the fragment it returns.
set_projection_as_coord_reindexing(item) ==
    LET ds == item[2]
        r  == set_coords(ds, {ProjectionName})
    IN  IF Raised(r) THEN r ELSE Return(<<0, r.value>>)

\* def _set_projection_as_coord(item):
\*     index, ds = item
\*     ds = ds.set_coords(["Lambert_Conformal"])
\*     return index, ds
_set_projection_as_coord(item) ==
    LET index == item[1]
        ds    == item[2]
        r     == set_coords(ds, {ProjectionName})
    IN  IF Raised(r) THEN r ELSE Return(<<index, r.value>>)

\* The outcome of applying a function to each element in turn, from the
\* outcomes outs of the single applications: one output per element, unless
\* an application raises; the first raise ends the whole.
Gather(outs) ==
    LET bad == {i \in 1..Len(outs) : Raised(outs[i])}
    IN  IF bad = {}
        THEN Return([i \in 1..Len(outs) |-> outs[i].value])
        ELSE outs[CHOOSE i \in bad : \A j \in bad : i <= j]

\* def expand(self, pcoll):
\*     return pcoll | beam.Map(self._set_projection_as_coord)
SetProjectionAsCoord(pc) ==
    Gather([i \in 1..Len(pc) |-> _set_projection_as_coord(pc[i])])

---------------------------------------------------------------------------
(* The pattern, the target and the transforms of the pipeline.             *)

\* pattern = FilePattern(format_function, time_dim, file_type="opendap")
pattern == [combine_dims |-> <<time_dim>>, file_type |-> "opendap"]

\* pattern.items(): one (index, url) pair per key of the concatenation
\* dimension, the index being the key's position and the url
\* format_function(time=key).
pattern_items ==
    LET keys == pattern.combine_dims[1].keys
        urls == Gather([i \in 1..Len(keys) |-> format_function(keys[i])])
    IN  IF Raised(urls) THEN urls
        ELSE Return([i \in 1..Len(keys) |-> <<i - 1, urls.value[i]>>])

\* pattern.combine_dim_keys
pattern_combine_dim_keys ==
    [i \in 1..Len(pattern.combine_dims) |-> pattern.combine_dims[i].name]

TempDirs == {"/tmp/tmpa", "/tmp/tmpb"}

\* store_name = "output.zarr"
store_name == "output.zarr"

EndsWithSep(a)   == Len(a) > 0 /\ SubSeq(a, Len(a), Len(a)) = "/"
StartsWithSep(b) == Len(b) > 0 /\ SubSeq(b, 1, 1) = "/"

\* os.path.join(a, b) of the standard library (POSIX).
os_path_join(a, b) ==
    IF StartsWithSep(b) THEN b
    ELSE IF a = "" \/ EndsWithSep(a) THEN a \o b
    ELSE a \o "/" \o b

\* target_store = os.path.join(target_root, store_name)
target_store == os_path_join(target_root, store_name)

target_chunks_two == [time |-> 2]

\* target_chunks={"time": 1}
target_chunks == [time |-> 1]

transforms_unpromoted ==
    << [t |-> "Create"],
       [t |-> "OpenWithXarray", file_type |-> pattern.file_type],
       [t |-> "StoreToZarr", store_name |-> store_name,
        target_root |-> target_root, combine_dims |-> pattern_combine_dim_keys,
        target_chunks |-> target_chunks] >>

\* transforms = (
\*     beam.Create(pattern.items())
\*     | OpenWithXarray(file_type=pattern.file_type)
\*     | SetProjectionAsCoord()
\*     | StoreToZarr(store_name=store_name, target_root=target_root,
\*                   combine_dims=pattern.combine_dim_keys,
\*                   target_chunks={"time": 1}))
transforms ==
    << [t |-> "Create"],
       [t |-> "OpenWithXarray", file_type |-> pattern.file_type],
       [t |-> "SetProjectionAsCoord"],
       [t |-> "StoreToZarr", store_name |-> store_name,
        target_root |-> target_root, combine_dims |-> pattern_combine_dim_keys,
        target_chunks |-> target_chunks] >>

---------------------------------------------------------------------------
(* The library transforms the pipeline calls.                              *)

Responses ==
    [status : {"ok"}, ds : Datasets] \cup [status : {"unreachable"}]

\* xr.open_dataset(u, engine="netcdf4"): the server serves the file at url
\* when it is reachable; anything else is an OSError.
xr_open_dataset(u) ==
    IF u = url /\ remote.status = "ok" THEN Return(remote.ds) ELSE Raise("OSError")

\* OpenWithXarray on one (index, url) item: the same index with the dataset
\* opened from the url.
open_with_xarray(item) ==
    LET r == xr_open_dataset(item[2])
    IN  IF Raised(r) THEN r ELSE Return(<<item[1], r.value>>)

OpenWithXarray(pc) == Gather([i \in 1..Len(pc) |-> open_with_xarray(pc[i])])

RECURSIVE SumTime(_)
SumTime(pc) ==
    IF pc = <<>> THEN 0 ELSE pc[1][2].sizes.time + SumTime(Tail(pc))

\* The chunk lengths of a dimension of length n cut every c.
RECURSIVE ChunkSizes(_, _)
ChunkSizes(n, c) ==
    IF n = 0 THEN <<>>
    ELSE IF n <= c THEN <<n>>
    ELSE <<c>> \o ChunkSizes(n - c, c)

\* The dataset StoreToZarr combines from the fragments along "time".
Combined(pc) == [pc[1][2] EXCEPT !.sizes.time = SumTime(pc)]

\* StoreToZarr(store_name, target_root, combine_dims, target_chunks) on the
\* fragments pc: the store it leaves at target_root/store_name and its
\* outcome.  A failed write leaves the store begun and incomplete.
StoreToZarr(pc, args) ==
    LET path  == args.target_root \o "/" \o args.store_name
        store == [path     |-> path,
                  ds       |-> Combined(pc),
                  chunks   |-> [time |-> ChunkSizes(SumTime(pc), args.target_chunks.time)],
                  complete |-> disk_ok]
    IN  [fs      |-> {f \in fs : f.path # path} \cup {store},
         outcome |-> IF disk_ok THEN Return(<<path>>) ELSE Raise("WriteError")]

\* xr.open_dataset(path, engine="zarr", chunks={})
xr_open_zarr(path) ==
    IF \E f \in fs : f.path = path /\ f.complete
    THEN LET f == CHOOSE f \in fs : f.path = path /\ f.complete
         IN  Return([ds |-> f.ds, chunks |-> f.chunks])
    ELSE Raise("FileNotFoundError")

---------------------------------------------------------------------------
(* The pipeline run:  with beam.Pipeline() as p: p | transforms            *)

Running == run = <<>> /\ stage <= Len(transforms)

\* One transform ran on pcoll with outcome out, leaving the filesystem newfs.
\* A raise ends the run with that raise: nothing in the notebook catches it.
Ran(out, newfs) ==
    /\ log' = Append(log, [transform |-> transforms[stage].t,
                           args      |-> transforms[stage],
                           input     |-> pcoll,
                           outcome   |-> out])
    /\ fs' = newfs
    /\ IF Raised(out)
       THEN run' = <<out>> /\ UNCHANGED <<stage, pcoll>>
       ELSE pcoll' = out.value /\ stage' = stage + 1 /\ UNCHANGED run
    /\ UNCHANGED <<fmt_vars, step_vars, remote, disk_ok, target_root, ds_target>>

Create ==
    /\ Running
    /\ transforms[stage].t = "Create"
    /\ Ran(pattern_items, fs)

OpenStage ==
    /\ Running
    /\ transforms[stage].t = "OpenWithXarray"
    /\ Ran(OpenWithXarray(pcoll), fs)

PromoteStage ==
    /\ Running
    /\ transforms[stage].t = "SetProjectionAsCoord"
    /\ Ran(SetProjectionAsCoord(pcoll), fs)

StoreStage ==
    /\ Running
    /\ transforms[stage].t = "StoreToZarr"
    /\ LET r == StoreToZarr(pcoll, transforms[stage]) IN Ran(r.outcome, r.fs)

\* The with-block ends once every transform ran.
PipelineExit ==
    /\ run = <<>>
    /\ stage = Len(transforms) + 1
    /\ run' = <<Return("None")>>
    /\ UNCHANGED <<fmt_vars, step_vars, remote, disk_ok, target_root, stage,
                   pcoll, fs, log, ds_target>>

\* ds_target = xr.open_dataset(target_store, engine="zarr", chunks={})
\* The cell runs only when the pipeline cell before it did not raise.
ReadBack ==
    /\ run # <<>>
    /\ Returned(run[1])
    /\ ds_target = <<>>
    /\ ds_target' = <<xr_open_zarr(target_store)>>
    /\ UNCHANGED <<fmt_vars, step_vars, remote, disk_ok, target_root, stage,
                   pcoll, fs, log, run>>

\* format_function(label) is called once more.
CallFormat ==
    /\ Len(fmt_calls) < MaxCalls
    /\ fmt_calls' = Append(fmt_calls, format_function(label))
    /\ UNCHANGED <<label, step_vars, pipe_vars>>

\* The promotion step is applied to frag, then to what it returned.
ApplyStep ==
    /\ Len(applied) < MaxApply
    /\ IF applied = <<>> THEN TRUE ELSE Returned(applied[Len(applied)])
    /\ applied' = Append(applied,
                         SetProjectionAsCoord(IF applied = <<>> THEN <<frag>>
                                              ELSE applied[Len(applied)].value))
    /\ UNCHANGED <<frag, fmt_vars, pipe_vars>>

---------------------------------------------------------------------------
(* Specifications.                                                         *)

IdleFormat == label = time_dim.keys[1] /\ fmt_calls = <<>>

IdleStep ==
    /\ frag = <<0, [variables   |-> [n \in {ProjectionName} |-> 0],
                    coord_names |-> {},
                    attrs       |-> 0,
                    sizes       |-> [time |-> 1]]>>
    /\ applied = <<>>

IdlePipeline ==
    /\ remote = [status |-> "unreachable"]
    /\ disk_ok = TRUE
    /\ target_root = "/tmp/tmpa"
    /\ stage = 1
    /\ pcoll = <<>>
    /\ fs = {}
    /\ log = <<>>
    /\ run = <<>>
    /\ ds_target = <<>>

\* The notebook before its pipeline cell runs, against any server answer,
\* any temporary directory and a disk that works or not.
Init ==
    /\ IdleFormat
    /\ IdleStep
    /\ remote \in Responses
    /\ disk_ok \in BOOLEAN
    /\ target_root \in TempDirs
    /\ stage = 1
    /\ pcoll = <<>>
    /\ fs = {}
    /\ log = <<>>
    /\ run = <<>>
    /\ ds_target = <<>>

Next ==
    \/ Create
    \/ OpenStage
    \/ PromoteStage
    \/ StoreStage
    \/ PipelineExit
    \/ ReadBack

Spec == Init /\ [][Next]_vars

\* format_function on any bounded label.
InitFormat ==
    /\ label \in Labels
    /\ fmt_calls = <<>>
    /\ IdleStep
    /\ IdlePipeline

NextFormat == CallFormat

SpecFormat == InitFormat /\ [][NextFormat]_vars

\* The promotion step on any bounded fragment.
InitStep ==
    /\ frag \in Fragments
    /\ applied = <<>>
    /\ IdleFormat
    /\ IdlePipeline

NextStep == ApplyStep

SpecStep == InitStep /\ [][NextStep]_vars

---------------------------------------------------------------------------
(* Claims about the URL formatter, checked under SpecFormat.               *)

Called == Len(fmt_calls) >= 1

\* C1: for every time label t, format_function(t) returns exactly
\* "https://psl.noaa.gov/thredds/dodsC/Datasets/NARR/pressure/air." followed
\* by t followed by ".nc"; for "197901" that is the url of the first cell.
C1_FormatMatchesTemplate ==
    \A i \in 1..Len(fmt_calls) :
        /\ fmt_calls[i] =
             Return("https://psl.noaa.gov/thredds/dodsC/Datasets/NARR/pressure/air."
                    \o label \o ".nc")
        /\ label = "197901" => fmt_calls[i] = Return(url)

C1_Witness ==
    /\ Called
    /\ label = "197901"
    /\ fmt_calls[1] =
         Return("https://psl.noaa.gov/thredds/dodsC/Datasets/NARR/pressure/air.197901.nc")

\* C7: the formatter is total and pure: every call on every label, the empty
\* and the malformed ones included, returns a string and never raises; a
\* repeated call returns what the first returned; a call changes nothing
\* but the record of its own result.
C7_CallsReturnStrings ==
    \A i \in 1..Len(fmt_calls) :
        /\ Returned(fmt_calls[i])
        /\ fmt_calls[i].value \in STRING
        /\ fmt_calls[i] = fmt_calls[1]

C7_CallChangesNothingElse ==
    fmt_calls' # fmt_calls => UNCHANGED <<label, step_vars, pipe_vars>>

\* C7: every call returns a string, never raises, repeats its result, and
\* leaves every other variable as it was.
C7_FormatPureTotal ==
    []C7_CallsReturnStrings /\ [][C7_CallChangesNothingElse]_vars

C7_Witness ==
    /\ Len(fmt_calls) >= 2
    /\ label = ""
    /\ Returned(fmt_calls[2])

\* The label of a url: what is left once the fixed prefix and the ".nc"
\* suffix are stripped.
StripTemplate(u) ==
    LET prefix == "https://psl.noaa.gov/thredds/dodsC/Datasets/NARR/pressure/air."
    IN  SubSeq(u, Len(prefix) + 1, Len(u) - Len(".nc"))

\* C10: the formatter is injective: no other label has the url of the label
\* called, and stripping the fixed prefix and the ".nc" suffix from the url
\* gives the label back.
C10_FormatInjective ==
    \A i \in 1..Len(fmt_calls) :
        /\ \A t \in Labels \ {label} : format_function(t) # fmt_calls[i]
        /\ StripTemplate(fmt_calls[i].value) = label

C10_Witness ==
    /\ Called
    /\ label = ".nc"
    /\ StripTemplate(fmt_calls[1].value) = ".nc"

---------------------------------------------------------------------------
(* Claims about the coordinate-promotion step, checked under SpecStep.     *)

Applied == Len(applied) >= 1

InputHasProjection == HasField(frag[2], ProjectionName)

\* C2: on a fragment whose dataset contains "Lambert_Conformal" the step
\* returns a dataset in which that field is a coordinate, every other field
\* keeps its classification and its values, and the metadata is unchanged.
C2_PromotesOnlyProjection ==
    (Applied /\ InputHasProjection) =>
        /\ Returned(applied[1])
        /\ Len(applied[1].value) = 1
        /\ LET old == frag[2]
               new == applied[1].value[1][2]
           IN  /\ IsCoord(new, ProjectionName)
               /\ DOMAIN new.variables = DOMAIN old.variables
               /\ \A n \in DOMAIN old.variables \ {ProjectionName} :
                      /\ IsCoord(new, n) <=> IsCoord(old, n)
                      /\ IsData(new, n) <=> IsData(old, n)
                      /\ new.variables[n] = old.variables[n]
               /\ new.attrs = old.attrs
               /\ new.sizes = old.sizes

C2_Witness ==
    /\ Applied
    /\ IsData(frag[2], ProjectionName)
    /\ IsCoord(frag[2], "lat")
    /\ IsData(frag[2], "air")
    /\ Returned(applied[1])
    /\ IsCoord(applied[1].value[1][2], ProjectionName)

\* C3, as stated: for every fragment given to the step, the step returns
\* exactly one pair, and the pair carries the fragment's index.
C3_EveryFragmentReturned ==
    Applied =>
        /\ Returned(applied[1])
        /\ Len(applied[1].value) = 1
        /\ applied[1].value[1][1] = frag[1]

\* C3, amended: for every fragment whose dataset contains
\* "Lambert_Conformal", the step returns exactly one pair, and the pair
\* carries the fragment's index unchanged.
C3_IndexKept ==
    (Applied /\ InputHasProjection) =>
        /\ Returned(applied[1])
        /\ Len(applied[1].value) = 1
        /\ applied[1].value[1][1] = frag[1]

C3_Witness ==
    /\ Applied
    /\ InputHasProjection
    /\ frag[1] = MaxIndex
    /\ Returned(applied[1])
    /\ applied[1].value[1][1] = MaxIndex

\* C4: the step is idempotent: on a fragment whose dataset contains
\* "Lambert_Conformal", the step applied to its own output returns that
\* output again (same index, same classifications, same values).
C4_Idempotent ==
    (Len(applied) >= 2 /\ InputHasProjection) =>
        /\ Returned(applied[2])
        /\ applied[2] = applied[1]

C4_Witness ==
    /\ Len(applied) >= 2
    /\ IsData(frag[2], ProjectionName)
    /\ Returned(applied[2])

\* C6: on a fragment whose dataset has no "Lambert_Conformal" the step
\* raises what set_coords raises: nothing is caught, no default stands in,
\* no fragment is returned and nothing is applied after it.
C6_MissingFieldRaises ==
    (Applied /\ ~InputHasProjection) =>
        /\ Raised(applied[1])
        /\ applied[1] = set_coords(frag[2], {ProjectionName})
        /\ applied[1] = Raise("ValueError")
        /\ Len(applied) = 1

C6_Witness ==
    /\ Applied
    /\ ~InputHasProjection
    /\ HasField(frag[2], "air")
    /\ Raised(applied[1])

---------------------------------------------------------------------------
(* Claims about the pipeline run, checked under Spec.                      *)

Succeeded == run # <<>> /\ Returned(run[1])
Failed    == run # <<>> /\ Raised(run[1])

AllOnes(sizes) == Len(sizes) >= 1 /\ \A i \in 1..Len(sizes) : sizes[i] = 1

\* C5: once the pipeline ran to completion, a complete store exists at
\* target_root/output.zarr, the path the notebook reads back, and every
\* chunk of it has length 1 along "time"; the read-back sees the same.
C5_StoreChunkedByOne ==
    Succeeded =>
        /\ \E f \in fs : f.path = target_store /\ f.complete
        /\ \A f \in fs : f.path = target_store => AllOnes(f.chunks.time)
        /\ ds_target # <<>> =>
               /\ Returned(ds_target[1])
               /\ AllOnes(ds_target[1].value.chunks.time)

C5_Witness ==
    /\ Succeeded
    /\ ds_target # <<>>
    /\ Returned(ds_target[1])
    /\ Len(ds_target[1].value.chunks.time) >= 2
    /\ target_store = "/tmp/tmpb/output.zarr"

\* What the environment makes fail: the transform and the error it raises.
FailureCause ==
    IF remote.status # "ok" THEN <<"OpenWithXarray", "OSError">>
    ELSE IF ~HasField(remote.ds, ProjectionName)
    THEN <<"SetProjectionAsCoord", "ValueError">>
    ELSE IF ~disk_ok THEN <<"StoreToZarr", "WriteError">>
    ELSE <<>>

\* C8: a failure of any stage (opening the remote dataset, the promotion,
\* the write) leaves the run with that very failure: the stage that meets
\* the cause raises, the raise is the run's outcome, no transform runs after
\* it or twice, nothing can run once the run failed, and no complete store
\* and no read-back stand as if the run had succeeded.
C8_FailurePropagates ==
    /\ \A i \in 1..Len(log) :
           Raised(log[i].outcome) => i = Len(log) /\ run = <<log[i].outcome>>
    /\ \A i, j \in 1..Len(log) : log[i].transform = log[j].transform => i = j
    /\ Failed => ~ENABLED Next
    /\ FailureCause # <<>> =>
           /\ \A i \in 1..Len(log) :
                  log[i].transform = FailureCause[1]
                      => log[i].outcome = Raise(FailureCause[2])
           /\ run # <<>> => run = <<Raise(FailureCause[2])>>
           /\ ~\E f \in fs : f.complete
           /\ ds_target = <<>>

C8_Witness ==
    /\ Failed
    /\ run[1] = Raise("WriteError")
    /\ Len(log) = 4
    /\ \E f \in fs : f.path = target_store /\ ~f.complete

\* C9: the pipeline is linear in a fixed order: Create emits exactly one
\* item, for "197901"; OpenWithXarray opens what Create emitted, with file
\* type "opendap"; the promotion takes what OpenWithXarray returned; and
\* StoreToZarr takes only what the promotion returned, so in every store
\* written "Lambert_Conformal" is a coordinate and not a data field.
C9_LinearOrder ==
    /\ \A i \in 1..Len(log) :
           LET e == log[i] IN
           /\ e.transform = "Create" =>
                  /\ i = 1
                  /\ e.outcome = Return(<< <<0, url>> >>)
           /\ e.transform = "OpenWithXarray" =>
                  /\ i = 2
                  /\ log[i - 1].transform = "Create"
                  /\ e.input = log[i - 1].outcome.value
                  /\ e.args.file_type = "opendap"
           /\ e.transform = "SetProjectionAsCoord" =>
                  /\ i = 3
                  /\ log[i - 1].transform = "OpenWithXarray"
                  /\ e.input = log[i - 1].outcome.value
           /\ e.transform = "StoreToZarr" =>
                  /\ i = 4
                  /\ log[i - 1].transform = "SetProjectionAsCoord"
                  /\ e.input = log[i - 1].outcome.value
                  /\ \A k \in 1..Len(e.input) : IsCoord(e.input[k][2], ProjectionName)
    /\ \A f \in fs : IsCoord(f.ds, ProjectionName) /\ ~IsData(f.ds, ProjectionName)

C9_Witness ==
    /\ Succeeded
    /\ Len(log) = 4
    /\ IsData(remote.ds, ProjectionName)
    /\ \E f \in fs : f.path = target_store /\ IsCoord(f.ds, ProjectionName)

=============================================================================
